---- MODULE Spec2Model ----
(***************************************************************************)
(* Model of utils/eval/dataset.py (dataset converters and their factory)   *)
(* and utils/rag/base_components.py (BaseComponents).                      *)
(*                                                                         *)
(* Four specifications share the module, one per group of operations:      *)
(*   Spec           the converter factory and the two converters           *)
(*   SpecRerank     BaseComponents.rerank_docs                             *)
(*   SpecFormat     BaseComponents._format_docs                            *)
(*   SpecComponents the attribute state of a BaseComponents object         *)
(***************************************************************************)
EXTENDS Integers, Sequences, FiniteSets, TLC

VARIABLES
    \* ---- utils/eval/dataset.py
    path,        \* the filepath argument, a sequence of tokens ("." "/" or a word)
    fs,          \* what the file system holds at that path
    pc,          \* "start" | "created" | "failed"
    dispatched,  \* the converter class whose constructor the factory called
    converter,   \* the converter object the factory returned
    error,       \* the exception that escaped create_converter
    opened,      \* TRUE once a loader tried to open the file
    results,     \* the values successive convert() calls returned
    \* ---- BaseComponents.rerank_docs
    rr_docs, rr_scores, rr_final_k, rr_pc, rr_result,
    \* ---- BaseComponents._format_docs
    fd_docs, fd_pc, fd_result,
    \* ---- BaseComponents object
    configs,           \* self.configs
    llm,               \* self.llm
    embeddings,        \* self.embeddings
    base_llm_chain,    \* self.base_llm_chain
    last_op,           \* the method called last
    last_error,        \* the exception it raised
    last_ret,          \* the value it returned
    gen_state,         \* the state dict last passed to llm_generation
    chain_init_called  \* init_base_llm_chain was called with self.llm set

dsVars == <<path, fs, pc, dispatched, converter, error, opened, results>>
rrVars == <<rr_docs, rr_scores, rr_final_k, rr_pc, rr_result>>
fdVars == <<fd_docs, fd_pc, fd_result>>
bcVars == <<configs, llm, embeddings, base_llm_chain, last_op, last_error,
            last_ret, gen_state, chain_init_called>>
vars == <<dsVars, rrVars, fdVars, bcVars>>

\* ------------------------------------------------------------------ bounds
MaxPathLen == 3     \* tokens in a path
MaxRows == 2        \* data lines of a tabular file
MaxItems == 2       \* objects written in one JSON array
MaxConverts == 2    \* convert() calls on one converter
MaxDocs == 3        \* documents handed to rerank_docs
MaxScore == 2       \* distinct relevance scores the reranker gives, less one
MaxFinalK == 4      \* largest final_k asked for
MaxFmtDocs == 3     \* documents handed to _format_docs
MaxContentLen == 2  \* characters in a page_content

\* ----------------------------------------------------------------- helpers
Range(s) == {s[i] : i \in DOMAIN s}
SeqsUpTo(S, n) == UNION {[1..k -> S] : k \in 0..n}
Min(a, b) == IF a < b THEN a ELSE b
Max(a, b) == IF a < b THEN b ELSE a

\* =========================================================================
\*                       utils/eval/dataset.py
\* =========================================================================

\* ---- paths: strings as sequences of tokens; a word holds no "." and no "/"
PathWords == {"data", "json", "JSON", "csv", "Txt", "xml"}
PathTokens == PathWords \cup {".", "/"}
Paths == SeqsUpTo(PathTokens, MaxPathLen)
SamplePaths == {<<"data", ".", "json">>, <<"data", ".", "csv">>}

\* str.lower() on one token
LowerToken(w) ==
    CASE w = "JSON" -> "json"
      [] w = "Txt" -> "txt"
      [] OTHER -> w

\* str.lower() on a string
Lower(s) == [i \in DOMAIN s |-> LowerToken(s[i])]

\* str.rfind(c), 1-based; 0 when c does not occur (Python's -1)
RFind(p, c) ==
    IF \E i \in DOMAIN p : p[i] = c
    THEN CHOOSE i \in DOMAIN p : p[i] = c /\ \A j \in DOMAIN p : p[j] = c => j <= i
    ELSE 0

\* os.path.splitext(p): <<root, ext>>. The extension starts at the last dot,
\* when that dot follows the last separator and is not one of the leading
\* dots of the file name.
Splitext(p) ==
    LET sepIndex == RFind(p, "/")
        dotIndex == RFind(p, ".")
    IN  IF /\ dotIndex > sepIndex
           /\ \E k \in (sepIndex + 1)..(dotIndex - 1) : p[k] # "."
        THEN <<SubSeq(p, 1, dotIndex - 1), SubSeq(p, dotIndex, Len(p))>>
        ELSE <<p, <<>> >>

\* ---- file contents --------------------------------------------------------
JsonKeys == {"q", "a"}
JsonPairs == {<<"q", "a">>, <<"q", "b">>, <<"a", "b">>}
Absent == "<absent>"
\* an object text writes some of the pairs, each at most once, in any order
JsonObjectTexts ==
    {t \in SeqsUpTo(JsonPairs, Cardinality(JsonPairs)) :
        \A i, j \in DOMAIN t : t[i] = t[j] => i = j}

ColumnNames == {"x", "y"}
Headers == {<<"x">>, <<"x", "y">>}
Cells == {"1", "2", "a", ""}
\* lines of up to as many fields as the header, and one line with a field more
RowTexts(header) ==
    (SeqsUpTo(Cells, Len(header)) \ {<<>>}) \cup {[j \in 1..(Len(header) + 1) |-> "2"]}

MissingFile == [kind |-> "missing"]
EmptyFile == [kind |-> "empty"]
JsonArrayFile(items) == [kind |-> "json", top |-> "array", items |-> items]
JsonObjectFile(pairs) == [kind |-> "json", top |-> "object", items |-> <<pairs>>]
TableFile(header, lines) == [kind |-> "table", header |-> header, lines |-> lines]

JsonFiles ==
    {JsonArrayFile(items) : items \in SeqsUpTo(JsonObjectTexts, MaxItems)}
    \cup {JsonObjectFile(pairs) : pairs \in JsonObjectTexts}

TableFiles ==
    UNION {{TableFile(h, lines) : lines \in SeqsUpTo(RowTexts(h), MaxRows)} : h \in Headers}

Files == {MissingFile, EmptyFile} \cup JsonFiles \cup TableFiles

SampleFiles ==
    { MissingFile, EmptyFile,
      JsonArrayFile(<< <<<<"q", "a">>, <<"a", "b">>>> >>),
      TableFile(<<"x", "y">>, << <<"1", "a">> >>) }

\* ---- exceptions -----------------------------------------------------------
NoError == [type |-> "none", msg |-> "", cause |-> ""]
ValueError(msg, cause) == [type |-> "ValueError", msg |-> msg, cause |-> cause]
Escaped(type) == [type |-> type, msg |-> "", cause |-> ""]

UnsupportedMsg == "Unsupported file type. Please provide a JSON or CSV file."
JsonLoadMsg == "Error loading JSON data from"
CsvLoadMsg == "Error loading CSV data from"

\* ---- json.load ------------------------------------------------------------
\* A JSON object text becomes a dict: a repeated key keeps its last value.
ParseObject(pairs) ==
    [k \in JsonKeys |->
        IF \E i \in DOMAIN pairs : pairs[i][1] = k
        THEN pairs[CHOOSE i \in DOMAIN pairs :
                     /\ pairs[i][1] = k
                     /\ \A j \in DOMAIN pairs : pairs[j][1] = k => j <= i][2]
        ELSE Absent]

\* json.load(file): the parsed value, or the exception it raises
JsonLoad(file) ==
    IF file.kind = "missing" THEN [ok |-> FALSE, exc |-> "FileNotFoundError"]
    ELSE IF file.kind # "json" THEN [ok |-> FALSE, exc |-> "JSONDecodeError"]
    ELSE [ok |-> TRUE,
          value |-> [top |-> file.top,
                     items |-> [i \in DOMAIN file.items |-> ParseObject(file.items[i])]]]

\* ---- pandas.read_csv ------------------------------------------------------
\* blank lines are skipped (skip_blank_lines=True)
IsBlank(line) == line = <<"">>
DataLines(file) == SelectSeq(file.lines, LAMBDA l : ~IsBlank(l))

\* the number of fields every line is held to: the first data line is padded
\* to the header's, and each later line is measured against the line before it
ExpectedFields(header, lines) == Max(Len(header), Len(lines[1]))

\* columns before the named ones become the (implicit) row index
LeadingCols(header, lines) == ExpectedFields(header, lines) - Len(header)

\* the text of named column c in a data line; short lines are padded
CellText(header, lines, i, c) ==
    LET j == LeadingCols(header, lines) + c
    IN  IF j <= Len(lines[i]) THEN lines[i][j] ELSE ""

IsInteger(cell) == cell \in {"1", "2"}

\* dtype inference over one column
ColumnDtype(header, lines, c) ==
    LET texts == {CellText(header, lines, i, c) : i \in DOMAIN lines}
    IN  IF \E t \in texts : t # "" /\ ~IsInteger(t) THEN "object"
        ELSE IF "" \in texts THEN "float64"
        ELSE "int64"

NaN == [t |-> "float", v |-> "nan"]

CellValue(dtype, text) ==
    IF text = "" THEN NaN
    ELSE IF dtype = "int64" THEN [t |-> "int", v |-> text]
    ELSE IF dtype = "float64" THEN [t |-> "float", v |-> text]
    ELSE [t |-> "str", v |-> text]

ReadCsv(file) ==
    IF file.kind = "missing" THEN [ok |-> FALSE, exc |-> "FileNotFoundError"]
    ELSE IF file.kind = "empty" THEN [ok |-> FALSE, exc |-> "EmptyDataError"]
    ELSE
      LET header == file.header
          lines == DataLines(file)
      IN  IF lines # <<>> /\ \E i \in DOMAIN lines : Len(lines[i]) > ExpectedFields(header, lines)
          THEN [ok |-> FALSE, exc |-> "ParserError"]
          ELSE [ok |-> TRUE,
                value |-> [columns |-> header,
                           data |-> [i \in DOMAIN lines |->
                                      [c \in DOMAIN header |->
                                         CellValue(ColumnDtype(header, lines, c),
                                                   CellText(header, lines, i, c))]]]]

\* ---- DataFrame.to_dict(orient='records') ----------------------------------
ColumnIndex(columns, name) == CHOOSE c \in DOMAIN columns : columns[c] = name

ToDictRecords(df) ==
    [i \in DOMAIN df.data |->
        [name \in Range(df.columns) |-> df.data[i][ColumnIndex(df.columns, name)]]]

\* ---- the converters -------------------------------------------------------
NoConverter == [cls |-> "none"]

\* JSONDatasetConverter.load_data
JSONLoadData(file) ==
    LET r == JsonLoad(file)
    IN  IF r.ok THEN [ok |-> TRUE, value |-> r.value, error |-> NoError]
        ELSE [ok |-> FALSE, error |-> ValueError(JsonLoadMsg, r.exc)]

\* DataFrameDatasetConverter.load_data
DataFrameLoadData(file) ==
    LET r == ReadCsv(file)
    IN  IF r.ok THEN [ok |-> TRUE, value |-> r.value, error |-> NoError]
        ELSE IF r.exc = "FileNotFoundError"
             THEN [ok |-> FALSE, error |-> ValueError(CsvLoadMsg, r.exc)]
             ELSE [ok |-> FALSE, error |-> Escaped(r.exc)]

\* a convert() that keeps only the records that have a field
JSONConvertValidated(json_data) ==
    [json_data EXCEPT !.items =
        SelectSeq(json_data.items, LAMBDA o : \E k \in JsonKeys : o[k] # Absent)]

\* JSONDatasetConverter.convert
JSONConvert(json_data) == json_data

\* a convert() that drops the rows with a missing value first
DataFrameConvertDropNa(dataframe) ==
    ToDictRecords([dataframe EXCEPT !.data =
        SelectSeq(dataframe.data, LAMBDA row : \A c \in DOMAIN row : row[c] # NaN)])

\* DataFrameDatasetConverter.convert
DataFrameConvert(dataframe) == ToDictRecords(dataframe)

\* a dispatch whose last branch falls back to the tabular converter
ConverterForFallback(extension) ==
    IF extension = <<".", "json">> THEN "JSONDatasetConverter"
    ELSE "DataFrameDatasetConverter"

\* the branch create_converter takes for a lowered extension
ConverterFor(extension) ==
    IF extension = <<".", "json">> THEN "JSONDatasetConverter"
    ELSE IF extension \in {<<".", "csv">>, <<".", "txt">>} THEN "DataFrameDatasetConverter"
    ELSE "none"

\* ---- DatasetConverterFactory.create_converter -----------------------------
Construct(cls, loaded) ==
    /\ dispatched' = cls
    /\ opened' = TRUE
    /\ IF loaded.ok
       THEN /\ converter' = [cls |-> cls, data |-> loaded.value]
            /\ error' = NoError
            /\ pc' = "created"
       ELSE /\ converter' = NoConverter
            /\ error' = loaded.error
            /\ pc' = "failed"

create_converter ==
    /\ pc = "start"
    /\ LET extension == Lower(Splitext(path)[2])
           cls == ConverterFor(extension)
       IN  CASE cls = "JSONDatasetConverter" -> Construct(cls, JSONLoadData(fs))
             [] cls = "DataFrameDatasetConverter" -> Construct(cls, DataFrameLoadData(fs))
             [] OTHER ->
                  /\ dispatched' = "none"
                  /\ converter' = NoConverter
                  /\ error' = ValueError(UnsupportedMsg, "")
                  /\ pc' = "failed"
                  /\ opened' = opened
    /\ UNCHANGED <<path, fs, results, rrVars, fdVars, bcVars>>

json_convert ==
    /\ pc = "created"
    /\ converter.cls = "JSONDatasetConverter"
    /\ Len(results) < MaxConverts
    /\ results' = Append(results, JSONConvert(converter.data))
    /\ UNCHANGED <<path, fs, pc, dispatched, converter, error, opened,
                   rrVars, fdVars, bcVars>>

dataframe_convert ==
    /\ pc = "created"
    /\ converter.cls = "DataFrameDatasetConverter"
    /\ Len(results) < MaxConverts
    /\ results' = Append(results, DataFrameConvert(converter.data))
    /\ UNCHANGED <<path, fs, pc, dispatched, converter, error, opened,
                   rrVars, fdVars, bcVars>>

\* A JSON document handed to the tabular reader is outside the modelled inputs.
Modelled(p, file) ==
    ~(ConverterFor(Lower(Splitext(p)[2])) = "DataFrameDatasetConverter" /\ file.kind = "json")

\* =========================================================================
\*                     utils/rag/base_components.py
\* =========================================================================

\* ---- rerank_docs ----------------------------------------------------------
Reverse(s) == [i \in DOMAIN s |-> s[Len(s) + 1 - i]]

\* x goes after the elements of the sorted sequence whose key is at most its own
Insert(sorted, x, key) ==
    LET before == Cardinality({i \in DOMAIN sorted : key[sorted[i]] <= key[x]})
    IN  SubSeq(sorted, 1, before) \o <<x>> \o SubSeq(sorted, before + 1, Len(sorted))

RECURSIVE StableSort(_, _)
\* list.sort(key=...): ascending, equal keys keep their order
StableSort(s, key) ==
    IF s = <<>> THEN <<>>
    ELSE Insert(StableSort(SubSeq(s, 1, Len(s) - 1), key), s[Len(s)], key)

\* a descending sort written as an ascending sort read backwards
SortedAscendingReversed(s, key) == Reverse(StableSort(s, key))

\* sorted(s, key=..., reverse=True): the list is reversed, sorted ascending
\* and reversed again, so that equal keys keep their order
SortedReverse(s, key) == Reverse(StableSort(Reverse(s), key))

\* s[:k]
SliceTo(s, k) ==
    IF k >= 0 THEN SubSeq(s, 1, Min(k, Len(s)))
    ELSE SubSeq(s, 1, Max(0, Len(s) + k))

\* the positions in docs of the documents rerank_docs returns, in order;
\* scores_list[k] is the reranker's logit for the pair [query, docs[k]]
RerankDocs(docs, scores_list, final_k) ==
    LET scores_sorted_idx == SortedReverse([k \in DOMAIN scores_list |-> k], scores_list)
    IN  SliceTo(scores_sorted_idx, final_k)

\* page_content strings are sequences of characters
PageContents == {<<"a">>, <<"b">>}
Document(content) == [page_content |-> content]

rerank_docs ==
    /\ rr_pc = "called"
    /\ rr_result' = RerankDocs(rr_docs, rr_scores, rr_final_k)
    /\ rr_pc' = "done"
    /\ UNCHANGED <<rr_docs, rr_scores, rr_final_k, dsVars, fdVars, bcVars>>

\* ---- _format_docs ---------------------------------------------------------
RECURSIVE Join(_, _)
\* sep.join(items), strings being sequences of characters
Join(sep, items) ==
    IF items = <<>> THEN <<>>
    ELSE IF Len(items) = 1 THEN items[1]
    ELSE items[1] \o sep \o Join(sep, Tail(items))

RECURSIVE JoinTerminated(_, _)
\* every item followed by the separator
JoinTerminated(sep, items) ==
    IF items = <<>> THEN <<>>
    ELSE items[1] \o sep \o JoinTerminated(sep, Tail(items))

FormatDocsTerminated(docs) ==
    JoinTerminated(<<"\n", "\n">>, [i \in DOMAIN docs |-> docs[i].page_content])

\* BaseComponents._format_docs
FormatDocs(docs) == Join(<<"\n", "\n">>, [i \in DOMAIN docs |-> docs[i].page_content])

Chars == {"a", "\n"}
Texts == SeqsUpTo(Chars, MaxContentLen)

format_docs ==
    /\ fd_pc = "called"
    /\ fd_result' = FormatDocs(fd_docs)
    /\ fd_pc' = "done"
    /\ UNCHANGED <<fd_docs, dsVars, rrVars, bcVars>>

\* ---- the BaseComponents object --------------------------------------------
Apis == {"sambaverse", "sambastudio", "unknown"}

Configs ==
    [api : Apis,
     llm : [sambaverse_model_name : {"Meta/llama-3-8b"},
            max_tokens_to_generate : {256, 1024},
            temperature : {"0.0", "0.7"},
            sambaverse_select_expert : {"llama-3-8b"}],
     retrieval : [reranker : {"BAAI/bge-reranker-large"}],
     prompts : [base_llm_prompt : {"prompts/base_llm.yaml"}]]

Unset == [kind |-> "unset"]

Sambaverse(cfg) ==
    [kind |-> "Sambaverse",
     sambaverse_model_name |-> cfg.llm.sambaverse_model_name,
     streaming |-> FALSE,
     model_kwargs |-> [do_sample |-> FALSE,
                       max_tokens_to_generate |-> cfg.llm.max_tokens_to_generate,
                       temperature |-> cfg.llm.temperature,
                       process_prompt |-> TRUE,
                       select_expert |-> cfg.llm.sambaverse_select_expert]]

SambaStudio(cfg) ==
    [kind |-> "SambaStudio",
     sambaverse_model_name |-> "",
     streaming |-> TRUE,
     model_kwargs |-> [do_sample |-> FALSE,
                       max_tokens_to_generate |-> cfg.llm.max_tokens_to_generate,
                       temperature |-> "",
                       process_prompt |-> FALSE,
                       select_expert |-> cfg.llm.sambaverse_select_expert]]

\* an init_llm whose last branch falls back to a client
InitLLMValueDefaulting(cfg, old) ==
    IF cfg.api = "sambaverse" THEN Sambaverse(cfg) ELSE SambaStudio(cfg)

\* the value self.llm holds after init_llm, old being what it held before
InitLLMValue(cfg, old) ==
    IF cfg.api = "sambaverse" THEN Sambaverse(cfg)
    ELSE IF cfg.api = "sambastudio" THEN SambaStudio(cfg)
    ELSE old

None == [kind |-> "None"]
Raised == [kind |-> "raised"]

Returns(op, value) ==
    /\ last_op' = op
    /\ last_error' = "none"
    /\ last_ret' = value

Raises(op, exc) ==
    /\ last_op' = op
    /\ last_error' = exc
    /\ last_ret' = Raised

init_llm ==
    /\ last_op # "idle"
    /\ llm' = InitLLMValue(configs, llm)
    /\ Returns("init_llm", None)
    /\ UNCHANGED <<configs, embeddings, base_llm_chain, gen_state, chain_init_called,
                   dsVars, rrVars, fdVars>>

init_embeddings ==
    /\ last_op # "idle"
    /\ embeddings' = "SambaStudioEmbeddings"
    /\ Returns("init_embeddings", None)
    /\ UNCHANGED <<configs, llm, base_llm_chain, gen_state, chain_init_called,
                   dsVars, rrVars, fdVars>>

\* self.vectordb and self.embedding_model_info are assigned nowhere
load_embedding_model ==
    /\ last_op # "idle"
    /\ Raises("load_embedding_model", "AttributeError")
    /\ UNCHANGED <<configs, llm, embeddings, base_llm_chain, gen_state,
                   chain_init_called, dsVars, rrVars, fdVars>>

\* self.confis is assigned nowhere: the prompt path is never read, the chain
\* never built
init_base_llm_chain ==
    /\ last_op # "idle"
    /\ Raises("init_base_llm_chain", "AttributeError")
    /\ chain_init_called' = (chain_init_called \/ llm.kind # "unset")
    /\ UNCHANGED <<configs, llm, embeddings, base_llm_chain, gen_state,
                   dsVars, rrVars, fdVars>>

Questions == {"q1", "q2"}
Generations == {"g1", "g2"}
States == [question : Questions, generation : {""} \cup Generations]

llm_generation ==
    /\ last_op # "idle"
    /\ \E state \in States :
          /\ gen_state' = state
          /\ IF base_llm_chain = "unset"
             THEN Raises("llm_generation", "AttributeError")
             ELSE \E generation \in Generations :
                     Returns("llm_generation",
                             [kind |-> "dict",
                              value |-> [question |-> state.question,
                                         generation |-> generation]])
    /\ UNCHANGED <<configs, llm, embeddings, base_llm_chain, chain_init_called,
                   dsVars, rrVars, fdVars>>

SampleDocs == {<<>>, <<Document(<<"a">>)>>, <<Document(<<"a">>), Document(<<"b">>)>>}

bc_rerank_docs ==
    /\ last_op # "idle"
    /\ \E docs \in SampleDocs, final_k \in 0..2 :
          \E scores_list \in [DOMAIN docs -> 0..1] :
             Returns("rerank_docs",
                     [kind |-> "docs", value |-> RerankDocs(docs, scores_list, final_k)])
    /\ UNCHANGED <<configs, llm, embeddings, base_llm_chain, gen_state,
                   chain_init_called, dsVars, rrVars, fdVars>>

bc_format_docs ==
    /\ last_op # "idle"
    /\ \E docs \in SampleDocs :
          Returns("_format_docs", [kind |-> "str", value |-> FormatDocs(docs)])
    /\ UNCHANGED <<configs, llm, embeddings, base_llm_chain, gen_state,
                   chain_init_called, dsVars, rrVars, fdVars>>

\* ---- initial states -------------------------------------------------------
IdleDataset ==
    /\ path = <<>> /\ fs = MissingFile /\ pc = "idle" /\ dispatched = "none"
    /\ converter = NoConverter /\ error = NoError /\ opened = FALSE /\ results = <<>>

IdleRerank ==
    /\ rr_docs = <<>> /\ rr_scores = <<>> /\ rr_final_k = 0
    /\ rr_pc = "idle" /\ rr_result = <<>>

IdleFormat == fd_docs = <<>> /\ fd_pc = "idle" /\ fd_result = <<>>

IdleComponents ==
    /\ configs = [api |-> "none"]
    /\ llm = Unset /\ embeddings = "unset" /\ base_llm_chain = "unset"
    /\ last_op = "idle" /\ last_error = "none" /\ last_ret = None
    /\ gen_state = [question |-> "", generation |-> ""]
    /\ chain_init_called = FALSE

Init ==
    /\ \/ path \in Paths /\ fs \in SampleFiles
       \/ path \in SamplePaths /\ fs \in Files
    /\ Modelled(path, fs)
    /\ pc = "start"
    /\ dispatched = "none"
    /\ converter = NoConverter
    /\ error = NoError
    /\ opened = FALSE
    /\ results = <<>>
    /\ IdleRerank /\ IdleFormat /\ IdleComponents

Next == create_converter \/ json_convert \/ dataframe_convert

Spec == Init /\ [][Next]_vars

InitRerank ==
    /\ \E n \in 0..MaxDocs :
          /\ rr_docs \in [1..n -> {Document(c) : c \in PageContents}]
          /\ rr_scores \in [1..n -> 0..MaxScore]
    /\ rr_final_k \in 0..MaxFinalK
    /\ rr_pc = "called"
    /\ rr_result = <<>>
    /\ IdleDataset /\ IdleFormat /\ IdleComponents

NextRerank == rerank_docs

SpecRerank == InitRerank /\ [][NextRerank]_vars

InitFormat ==
    /\ \E n \in 0..MaxFmtDocs : fd_docs \in [1..n -> {Document(t) : t \in Texts}]
    /\ fd_pc = "called"
    /\ fd_result = <<>>
    /\ IdleDataset /\ IdleRerank /\ IdleComponents

NextFormat == format_docs

SpecFormat == InitFormat /\ [][NextFormat]_vars

\* BaseComponents(configs): __init__ stores the configuration and nothing else
InitComponents ==
    /\ configs \in Configs
    /\ llm = Unset
    /\ embeddings = "unset"
    /\ base_llm_chain = "unset"
    /\ last_op = "__init__"
    /\ last_error = "none"
    /\ last_ret = None
    /\ gen_state = [question |-> "", generation |-> ""]
    /\ chain_init_called = FALSE
    /\ IdleDataset /\ IdleRerank /\ IdleFormat

NextComponents ==
    \/ init_llm
    \/ init_embeddings
    \/ load_embedding_model
    \/ init_base_llm_chain
    \/ llm_generation
    \/ bc_rerank_docs
    \/ bc_format_docs

SpecComponents == InitComponents /\ [][NextComponents]_vars

\* ------------------------------------------------------------- properties
\* p ends in the extension e, spelled in any case: e starts at a dot that no
\* dot or separator follows, and a character other than a dot stands between
\* the last separator and that dot.
HasExtension(p, e) ==
    \E d \in DOMAIN p :
        /\ Lower(SubSeq(p, d, Len(p))) = e
        /\ p[d] = "."
        /\ \A j \in (d + 1)..Len(p) : p[j] \notin {".", "/"}
        /\ \E k \in 1..(d - 1) : p[k] # "." /\ \A j \in k..(d - 1) : p[j] # "/"

\* C1: create_converter dispatches on the extension compared without regard to
\* case: .json goes to the JSON converter, .csv and .txt to the tabular one,
\* and any other path fails with the unsupported-file-type error, with no
\* converter constructed and the file never opened.
C1_DispatchOnExtension ==
    pc # "start" =>
        /\ HasExtension(path, <<".", "json">>) =>
              /\ dispatched = "JSONDatasetConverter"
              /\ pc = "created" => converter.cls = "JSONDatasetConverter"
        /\ (HasExtension(path, <<".", "csv">>) \/ HasExtension(path, <<".", "txt">>)) =>
              /\ dispatched = "DataFrameDatasetConverter"
              /\ pc = "created" => converter.cls = "DataFrameDatasetConverter"
        /\ ~(\/ HasExtension(path, <<".", "json">>)
             \/ HasExtension(path, <<".", "csv">>)
             \/ HasExtension(path, <<".", "txt">>)) =>
              /\ pc = "failed"
              /\ error = ValueError(UnsupportedMsg, "")
              /\ dispatched = "none"
              /\ converter = NoConverter
              /\ ~opened

\* an existing JSON document under an unrecognised extension was refused
C1_Witness ==
    /\ pc = "failed"
    /\ path = <<"data", ".", "xml">>
    /\ fs.kind = "json"
    /\ error.msg = UnsupportedMsg

\* C2: the tabular converter returns one record per data line, in line order,
\* each with exactly the header's columns as its fields.
C2_OneRecordPerRow ==
    \A n \in DOMAIN results :
        converter.cls = "DataFrameDatasetConverter" =>
            LET r == results[n]
                lines == SelectSeq(fs.lines, LAMBDA l : l # <<"">>)
            IN  /\ Len(r) = Len(lines)
                /\ \A i \in DOMAIN r :
                      /\ DOMAIN r[i] = Range(fs.header)
                      /\ Cardinality(DOMAIN r[i]) = Len(fs.header)
                      /\ \A j \in DOMAIN fs.header :
                            (/\ \A l \in DOMAIN lines : Len(lines[l]) <= Len(fs.header)
                             /\ j <= Len(lines[i])
                             /\ lines[i][j] # "")
                            => r[i][fs.header[j]].v = lines[i][j]

\* two different data lines under two columns were converted
C2_Witness ==
    /\ converter.cls = "DataFrameDatasetConverter"
    /\ Len(results) >= 1
    /\ Len(fs.header) = 2
    /\ Len(fs.lines) = 2
    /\ fs.lines[1] # fs.lines[2]
    /\ Len(results[1]) = 2

\* C3: every field value the tabular converter returns is a string; header
\* x,y with the single line 1,2 gives [{"x": "1", "y": "2"}].
C3_FieldValuesAreStrings ==
    \A n \in DOMAIN results :
        converter.cls = "DataFrameDatasetConverter" =>
            /\ \A i \in DOMAIN results[n] :
                  \A name \in DOMAIN results[n][i] : results[n][i][name].t = "str"
            /\ fs = TableFile(<<"x", "y">>, << <<"1", "2">> >>) =>
                  results[n] = << [name \in {"x", "y"} |->
                                     [t |-> "str", v |-> IF name = "x" THEN "1" ELSE "2"]] >>

\* the file is missing, or the parser of the chosen converter rejects it
LoadFails(cls, file) ==
    \/ file.kind = "missing"
    \/ cls = "JSONDatasetConverter" /\ ~JsonLoad(file).ok
    \/ cls = "DataFrameDatasetConverter" /\ ~ReadCsv(file).ok

\* C4: constructing either converter on a file that is missing or does not
\* parse fails with the error-loading ValueError, and produces no converter.
C4_LoadFailuresAreInvalidFormat ==
    (pc # "start" /\ dispatched # "none" /\ LoadFails(dispatched, fs)) =>
        /\ pc = "failed"
        /\ converter = NoConverter
        /\ error.type = "ValueError"
        /\ error.msg \in {JsonLoadMsg, CsvLoadMsg}

\* C5: the JSON converter returns the document as parsed: as many elements as
\* the text has, in the text's order, each with the fields and values the text
\* gives it, whatever they are; and every call returns the same value.
C5_JsonReturnedUnchanged ==
    \A n \in DOMAIN results :
        converter.cls = "JSONDatasetConverter" =>
            /\ results[n].top = fs.top
            /\ Len(results[n].items) = Len(fs.items)
            /\ \A i \in DOMAIN fs.items : \A k \in JsonKeys :
                  LET text == fs.items[i]
                      val == results[n].items[i][k]
                  IN  \/ val = Absent /\ \A j \in DOMAIN text : text[j][1] # k
                      \/ \E j \in DOMAIN text :
                            /\ text[j] = <<k, val>>
                            /\ \A j2 \in (j + 1)..Len(text) : text[j2][1] # k
            /\ \A m \in DOMAIN results : results[m] = results[n]

\* an array of two different objects, one of them empty, was converted twice
C5_Witness ==
    /\ converter.cls = "JSONDatasetConverter"
    /\ Len(results) >= 2
    /\ fs.top = "array"
    /\ Len(fs.items) = 2
    /\ fs.items[1] = <<>>
    /\ fs.items[2] # <<>>

\* C6: rerank_docs returns the documents by non-increasing score, equal scores
\* in their original order, cut to the first final_k: min(final_k, len(docs))
\* documents, each an input document and none twice, nothing left out that
\* ranks before a returned one; scores already strictly decreasing give the
\* input's own prefix.
C6_RerankOrdersAndTruncates ==
    rr_pc = "done" =>
        LET n == Len(rr_docs)
            r == rr_result
            Before(d, e) == \/ rr_scores[d] > rr_scores[e]
                            \/ rr_scores[d] = rr_scores[e] /\ d < e
        IN  /\ Len(r) = Min(rr_final_k, n)
            /\ \A i \in DOMAIN r : r[i] \in 1..n
            /\ \A i, j \in DOMAIN r : r[i] = r[j] => i = j
            /\ \A i, j \in DOMAIN r : i < j => Before(r[i], r[j])
            /\ \A d \in (1..n) \ Range(r) : \A i \in DOMAIN r : Before(r[i], d)
            /\ (\A d, e \in 1..n : d < e => rr_scores[d] > rr_scores[e])
                  => r = [i \in 1..Min(rr_final_k, n) |-> i]

\* three documents, the last two tied above the first, cut to two
C6_Witness ==
    /\ rr_pc = "done"
    /\ rr_scores = <<1, 2, 2>>
    /\ rr_final_k = 2
    /\ rr_result = <<2, 3>>

\* C7: init_llm stores a Sambaverse client for api "sambaverse", a SambaStudio
\* client for api "sambastudio", and for any other api returns without raising
\* and leaves llm unset; the configuration is never modified.
C7_InitLLMByApi ==
    /\ [](last_op = "init_llm" =>
            /\ last_error = "none"
            /\ configs.api = "sambaverse" =>
                  /\ llm.kind = "Sambaverse"
                  /\ llm.sambaverse_model_name = configs.llm.sambaverse_model_name
                  /\ llm.model_kwargs.do_sample = FALSE
                  /\ llm.model_kwargs.max_tokens_to_generate
                        = configs.llm.max_tokens_to_generate
                  /\ llm.model_kwargs.temperature = configs.llm.temperature
                  /\ llm.model_kwargs.select_expert = configs.llm.sambaverse_select_expert
            /\ configs.api = "sambastudio" =>
                  /\ llm.kind = "SambaStudio"
                  /\ llm.model_kwargs.do_sample = FALSE
                  /\ llm.model_kwargs.max_tokens_to_generate
                        = configs.llm.max_tokens_to_generate
                  /\ llm.model_kwargs.select_expert = configs.llm.sambaverse_select_expert
            /\ configs.api \notin {"sambaverse", "sambastudio"} => llm = Unset)
    /\ [][configs' = configs]_vars

\* init_llm returned under an api that names neither client
C7_Witness ==
    /\ last_op = "init_llm"
    /\ configs.api = "unknown"
    /\ last_error = "none"
    /\ llm = Unset

RECURSIVE Offset(_, _)
\* the characters that precede document i in the formatted text
Offset(docs, i) ==
    IF i = 1 THEN 0 ELSE Offset(docs, i - 1) + Len(docs[i - 1].page_content) + 2

\* C8: _format_docs lays the page contents out in input order with exactly
\* "\n\n" between neighbours and nothing before the first or after the last:
\* no documents give the empty string, one document gives its own content.
C8_FormatJoinsWithBlankLine ==
    fd_pc = "done" =>
        LET n == Len(fd_docs)
        IN  /\ n = 0 => fd_result = <<>>
            /\ n = 1 => fd_result = fd_docs[1].page_content
            /\ n >= 1 =>
                  /\ Len(fd_result) = Offset(fd_docs, n) + Len(fd_docs[n].page_content)
                  /\ \A i \in 1..n :
                        LET from == Offset(fd_docs, i)
                            len == Len(fd_docs[i].page_content)
                        IN  /\ SubSeq(fd_result, from + 1, from + len)
                                  = fd_docs[i].page_content
                            /\ i < n => SubSeq(fd_result, from + len + 1, from + len + 2)
                                           = <<"\n", "\n">>

\* three documents, the middle one empty, were formatted
C8_Witness ==
    /\ fd_pc = "done"
    /\ Len(fd_docs) = 3
    /\ fd_docs[1].page_content = <<"a">>
    /\ fd_docs[2].page_content = <<>>
    /\ fd_result = <<"a", "\n", "\n", "\n", "\n">> \o fd_docs[3].page_content

\* C9: once init_llm (known api) and then init_base_llm_chain have been called,
\* llm_generation returns {question, generation} for the state's question.
C9_GenerationAfterChainInit ==
    (last_op = "llm_generation" /\ chain_init_called) =>
        /\ last_error = "none"
        /\ last_ret.kind = "dict"
        /\ DOMAIN last_ret.value = {"question", "generation"}
        /\ last_ret.value.question = gen_state.question
        /\ last_ret.value.generation \in Generations

PublicOperations ==
    {"init_llm", "init_embeddings", "load_embedding_model", "init_base_llm_chain",
     "rerank_docs", "llm_generation", "_format_docs"}

\* C10: after construction every public operation can be called at any time,
\* in any order, without failing on an attribute no earlier call has set.
C10_OperationsIndependent ==
    last_op \in PublicOperations => last_error # "AttributeError"

====
